---- MODULE Spec2Model ----
(***************************************************************************)
(* The ledger storage engine of bozo: src/src/bozo/storage.py              *)
(* (TransactionStorage over SQLite) and src/src/bozo/transaction.py        *)
(* (parse_account_path).                                                   *)
(*                                                                         *)
(* A Python str is a sequence of one-character strings, so that lower(),   *)
(* split(), strip(), join(), str(Decimal), isoformat() and SQLite's LIKE   *)
(* are computed character by character.  A nullable column (Python None,   *)
(* SQL NULL) is a sequence of length 0 or 1.                               *)
(***************************************************************************)
EXTENDS Integers, Sequences, FiniteSets, TLC

VARIABLES journal_entries, line_items, accounts, sqlite_sequence, triggers, result,
          db_exists

tables == <<journal_entries, line_items, accounts, sqlite_sequence>>
vars == <<journal_entries, line_items, accounts, sqlite_sequence, triggers, result,
          db_exists>>

None == <<>>
Some(x) == <<x>>

(***************************************************************************)
(* Characters.  Ascii lists the characters of the model in code-point      *)
(* order; SQLite's BINARY collation (memcmp) compares by it.               *)
(***************************************************************************)
Ascii ==
  << "\t", " ", "%", "+", "-", ".",
     "0", "1", "2", "3", "4", "5", "6", "7", "8", "9", ":",
     "A", "B", "C", "D", "E", "F", "G", "H", "I", "J", "K", "L", "M",
     "N", "O", "P", "Q", "R", "S", "T", "U", "V", "W", "X", "Y", "Z", "_",
     "a", "b", "c", "d", "e", "f", "g", "h", "i", "j", "k", "l", "m",
     "n", "o", "p", "q", "r", "s", "t", "u", "v", "w", "x", "y", "z" >>

CharCodes == [c \in {Ascii[i] : i \in 1..Len(Ascii)} |->
                CHOOSE i \in 1..Len(Ascii) : Ascii[i] = c]

CharCode(c) == CharCodes[c]

UpperLetters ==
  << "A", "B", "C", "D", "E", "F", "G", "H", "I", "J", "K", "L", "M",
     "N", "O", "P", "Q", "R", "S", "T", "U", "V", "W", "X", "Y", "Z" >>

LowerLetters ==
  << "a", "b", "c", "d", "e", "f", "g", "h", "i", "j", "k", "l", "m",
     "n", "o", "p", "q", "r", "s", "t", "u", "v", "w", "x", "y", "z" >>

LowerTable ==
  [c \in {Ascii[i] : i \in 1..Len(Ascii)} |->
     IF \E i \in 1..Len(UpperLetters) : UpperLetters[i] = c
       THEN LowerLetters[CHOOSE i \in 1..Len(UpperLetters) : UpperLetters[i] = c]
       ELSE c]

LowerChar(c) == LowerTable[c]

\* str.lower()
lower(s) == [i \in 1..Len(s) |-> LowerChar(s[i])]

Whitespace == {" ", "\t"}

RECURSIVE lstrip(_)
lstrip(s) == IF s # <<>> /\ Head(s) \in Whitespace THEN lstrip(Tail(s)) ELSE s

RECURSIVE rstrip(_)
rstrip(s) ==
  IF s # <<>> /\ s[Len(s)] \in Whitespace THEN rstrip(SubSeq(s, 1, Len(s) - 1)) ELSE s

\* str.strip()
strip(s) == rstrip(lstrip(s))

\* str.split(sep) for a one-character separator: "".split(":") is [""]
RECURSIVE split(_, _)
split(s, sep) ==
  IF \A i \in 1..Len(s) : s[i] # sep
    THEN <<s>>
    ELSE LET k == CHOOSE i \in 1..Len(s) :
                    s[i] = sep /\ \A j \in 1..(i - 1) : s[j] # sep
         IN  <<SubSeq(s, 1, k - 1)>> \o split(SubSeq(s, k + 1, Len(s)), sep)

\* sep.join(segs)
RECURSIVE join(_, _)
join(segs, sep) ==
  IF Len(segs) = 0 THEN <<>>
  ELSE IF Len(segs) = 1 THEN segs[1]
  ELSE segs[1] \o <<sep>> \o join(Tail(segs), sep)

\* memcmp order of two TEXT values: a < b
RECURSIVE TextLess(_, _)
TextLess(a, b) ==
  IF b = <<>> THEN FALSE
  ELSE IF a = <<>> THEN TRUE
  ELSE IF Head(a) = Head(b) THEN TextLess(Tail(a), Tail(b))
  ELSE CharCode(Head(a)) < CharCode(Head(b))

(***************************************************************************)
(* transaction.py                                                          *)
(***************************************************************************)
s_assets      == <<"a", "s", "s", "e", "t", "s">>
s_liabilities == <<"l", "i", "a", "b", "i", "l", "i", "t", "i", "e", "s">>
s_income      == <<"i", "n", "c", "o", "m", "e">>
s_expenses    == <<"e", "x", "p", "e", "n", "s", "e", "s">>
s_capital     == <<"c", "a", "p", "i", "t", "a", "l">>
s_drawings    == <<"d", "r", "a", "w", "i", "n", "g", "s">>

\* the table with the types of income and expenses exchanged
ACCOUNT_TYPES_SWAPPED ==
  (s_assets :> "asset") @@ (s_liabilities :> "liability") @@ (s_income :> "expense")
    @@ (s_expenses :> "income") @@ (s_capital :> "capital") @@ (s_drawings :> "drawings")

ACCOUNT_TYPES ==
  (s_assets :> "asset") @@ (s_liabilities :> "liability") @@ (s_income :> "income")
    @@ (s_expenses :> "expense") @@ (s_capital :> "capital") @@ (s_drawings :> "drawings")

\* parse_account_path without the strip() of the segments
parse_account_path_no_strip(name) ==
  LET segments == split(lower(name), ":")
  IN  IF Len(segments) = 0 \/ segments[1] = <<>>
        THEN [err |-> "InvalidAccountName", type |-> "", segments |-> <<>>]
      ELSE IF segments[1] \notin DOMAIN ACCOUNT_TYPES
        THEN [err |-> "InvalidAccountRoot", type |-> "", segments |-> <<>>]
      ELSE [err |-> "ok", type |-> ACCOUNT_TYPES[segments[1]], segments |-> segments]

\* The two ValueErrors of parse_account_path, told apart by their message.
parse_account_path(name) ==
  LET parts == split(lower(name), ":")
      segments == [i \in 1..Len(parts) |-> strip(parts[i])]
  IN  IF Len(segments) = 0 \/ segments[1] = <<>>
        THEN [err |-> "InvalidAccountName", type |-> "", segments |-> <<>>]
      ELSE IF segments[1] \notin DOMAIN ACCOUNT_TYPES
        THEN [err |-> "InvalidAccountRoot", type |-> "", segments |-> <<>>]
      ELSE [err |-> "ok", type |-> ACCOUNT_TYPES[segments[1]], segments |-> segments]

(***************************************************************************)
(* decimal.Decimal and datetime.datetime, and the text they are stored as. *)
(* A Decimal is the triple CPython keeps: sign, the digits of the          *)
(* coefficient, and the exponent.                                          *)
(***************************************************************************)
Digits == <<"0", "1", "2", "3", "4", "5", "6", "7", "8", "9">>

DigitChar(d) == Digits[d + 1]

DigitVal(c) == (CHOOSE i \in 1..Len(Digits) : Digits[i] = c) - 1

RECURSIVE NatStr(_)
NatStr(n) == IF n < 10 THEN <<DigitChar(n)>> ELSE NatStr(n \div 10) \o <<DigitChar(n % 10)>>

RECURSIVE StrNat(_)
StrNat(s) ==
  IF s = <<>> THEN 0 ELSE StrNat(SubSeq(s, 1, Len(s) - 1)) * 10 + DigitVal(s[Len(s)])

Zeros(n) == [i \in 1..n |-> "0"]

RECURSIVE StripLeadingZeros(_)
StripLeadingZeros(s) ==
  IF Len(s) > 1 /\ Head(s) = "0" THEN StripLeadingZeros(Tail(s)) ELSE s

\* str(d) for a finite Decimal d (Decimal.__str__)
DecimalStr(d) ==
  LET n == Len(d.int)
      leftdigits == d.exp + n
      dotplace == IF d.exp <= 0 /\ leftdigits > -6 THEN leftdigits ELSE 1
      intpart == IF dotplace <= 0 THEN <<"0">>
                 ELSE IF dotplace >= n THEN d.int \o Zeros(dotplace - n)
                 ELSE SubSeq(d.int, 1, dotplace)
      fracpart == IF dotplace <= 0 THEN <<".">> \o Zeros(-dotplace) \o d.int
                  ELSE IF dotplace >= n THEN <<>>
                  ELSE <<".">> \o SubSeq(d.int, dotplace + 1, n)
      e == leftdigits - dotplace
      exp == IF e = 0 THEN <<>>
             ELSE IF e < 0 THEN <<"E", "-">> \o NatStr(-e)
             ELSE <<"E", "+">> \o NatStr(e)
  IN  (IF d.sign = 1 THEN <<"-">> ELSE <<>>) \o intpart \o fracpart \o exp

\* Decimal(s) for the text of a finite number: [sign] digits [. digits] [E [sign] digits]
DecimalParse(s) ==
  LET sign == IF s # <<>> /\ Head(s) = "-" THEN 1 ELSE 0
      body == IF s # <<>> /\ Head(s) \in {"-", "+"} THEN Tail(s) ELSE s
      me == split(lower(body), "e")
      mant == split(me[1], ".")
      intpart == mant[1]
      fracpart == IF Len(mant) > 1 THEN mant[2] ELSE <<>>
      exptext == IF Len(me) > 1 THEN me[2] ELSE <<>>
      exp == IF exptext = <<>> THEN 0
             ELSE IF Head(exptext) = "-" THEN 0 - StrNat(Tail(exptext))
             ELSE IF Head(exptext) = "+" THEN StrNat(Tail(exptext))
             ELSE StrNat(exptext)
  IN  [sign |-> sign,
       int |-> StripLeadingZeros(intpart \o fracpart),
       exp |-> exp - Len(fracpart)]

Pad(n, w) == LET s == NatStr(n) IN Zeros(w - Len(s)) \o s

\* datetime.isoformat() of a naive datetime
isoformat(t) ==
  Pad(t.year, 4) \o <<"-">> \o Pad(t.month, 2) \o <<"-">> \o Pad(t.day, 2) \o <<"T">>
    \o Pad(t.hour, 2) \o <<":">> \o Pad(t.minute, 2) \o <<":">> \o Pad(t.second, 2)
    \o (IF t.microsecond # 0 THEN <<".">> \o Pad(t.microsecond, 6) ELSE <<>>)

\* datetime.fromisoformat(s) on the text isoformat() writes
fromisoformat(s) ==
  [year |-> StrNat(SubSeq(s, 1, 4)), month |-> StrNat(SubSeq(s, 6, 7)),
   day |-> StrNat(SubSeq(s, 9, 10)), hour |-> StrNat(SubSeq(s, 12, 13)),
   minute |-> StrNat(SubSeq(s, 15, 16)), second |-> StrNat(SubSeq(s, 18, 19)),
   microsecond |-> IF Len(s) > 19 THEN StrNat(SubSeq(s, 21, Len(s))) ELSE 0]

(***************************************************************************)
(* Numbers wider than the integers at hand.  A Big is a natural number as  *)
(* its base-10000 digits, least significant first, with no digit for 0.    *)
(* Decimal's coefficient and the 53-bit significand of an IEEE double are  *)
(* computed on Bigs.                                                       *)
(***************************************************************************)
Max(a, b) == IF a >= b THEN a ELSE b

Min(a, b) == IF a <= b THEN a ELSE b

RECURSIVE Pow(_, _)
Pow(b, n) == IF n = 0 THEN 1 ELSE b * Pow(b, n - 1)

Abs(n) == IF n < 0 THEN 0 - n ELSE n

RECURSIVE Log2(_)
Log2(n) == IF n <= 1 THEN 0 ELSE 1 + Log2(n \div 2)

Base == 10000

\* Op applied to the value of v, with v computed once
With(v, Op(_)) == CHOOSE r \in {Op(x) : x \in {v}} : TRUE

RECURSIVE BigNorm(_)
BigNorm(a) == IF a # <<>> /\ a[Len(a)] = 0 THEN BigNorm(SubSeq(a, 1, Len(a) - 1)) ELSE a

RECURSIVE BigFromNat(_)
BigFromNat(n) == IF n = 0 THEN <<>> ELSE <<n % Base>> \o BigFromNat(n \div Base)

RECURSIVE BigFromDigitsRaw(_)
BigFromDigitsRaw(ds) ==
  IF ds = <<>> THEN <<>>
  ELSE LET k == Max(1, Len(ds) - 3)
       IN  <<StrNat(SubSeq(ds, k, Len(ds)))>> \o BigFromDigitsRaw(SubSeq(ds, 1, k - 1))

\* the number written with the decimal digits ds
BigFromDigits(ds) == BigNorm(BigFromDigitsRaw(ds))

RECURSIVE BigToDigitsRaw(_)
BigToDigitsRaw(a) == IF a = <<>> THEN <<>> ELSE BigToDigitsRaw(Tail(a)) \o Pad(Head(a), 4)

\* the decimal digits of a, "0" for zero
BigToDigits(a) == StripLeadingZeros(IF a = <<>> THEN <<"0">> ELSE BigToDigitsRaw(a))

RECURSIVE BigAddCarry(_, _, _)
BigAddCarry(a, b, c) ==
  IF a = <<>> /\ b = <<>> THEN BigFromNat(c)
  ELSE LET x == (IF a = <<>> THEN 0 ELSE Head(a)) + (IF b = <<>> THEN 0 ELSE Head(b)) + c
       IN  <<x % Base>> \o BigAddCarry(IF a = <<>> THEN a ELSE Tail(a),
                                       IF b = <<>> THEN b ELSE Tail(b), x \div Base)

BigAdd(a, b) == BigAddCarry(a, b, 0)

RECURSIVE BigSubBorrow(_, _, _)
BigSubBorrow(a, b, c) ==
  IF a = <<>> THEN <<>>
  ELSE LET x == Head(a) - (IF b = <<>> THEN 0 ELSE Head(b)) - c
       IN  <<IF x < 0 THEN x + Base ELSE x>>
             \o BigSubBorrow(Tail(a), IF b = <<>> THEN b ELSE Tail(b), IF x < 0 THEN 1 ELSE 0)

\* a - b for a >= b
BigSub(a, b) == BigNorm(BigSubBorrow(a, b, 0))

\* -1, 0 or 1 as a < b, a = b or a > b: the most significant digit that differs
RECURSIVE BigCmpFrom(_, _, _)
BigCmpFrom(a, b, i) ==
  IF i = 0 THEN 0
  ELSE IF a[i] < b[i] THEN -1
  ELSE IF a[i] > b[i] THEN 1
  ELSE BigCmpFrom(a, b, i - 1)

BigCmp(a, b) ==
  IF Len(a) # Len(b) THEN (IF Len(a) < Len(b) THEN -1 ELSE 1)
  ELSE BigCmpFrom(a, b, Len(a))

RECURSIVE BigMulCarry(_, _, _)
BigMulCarry(a, s, c) ==
  IF a = <<>> THEN BigFromNat(c)
  ELSE LET x == Head(a) * s + c
       IN  <<x % Base>> \o BigMulCarry(Tail(a), s, x \div Base)

\* a * s for 0 < s <= Base
BigMulSmall(a, s) == BigMulCarry(a, s, 0)

\* long division by s, from the most significant digit down: the quotient
\* digits so far and the remainder
RECURSIVE BigDivRaw(_, _)
BigDivRaw(a, s) ==
  IF a = <<>> THEN [q |-> <<>>, r |-> 0]
  ELSE With(BigDivRaw(Tail(a), s), LAMBDA hi :
         With(hi.r * Base + Head(a), LAMBDA x :
           [q |-> <<x \div s>> \o hi.q, r |-> x % s]))

\* quotient and remainder of a by s, for 0 < s <= Base
BigDivSmall(a, s) ==
  With(BigDivRaw(a, s), LAMBDA d : [q |-> BigNorm(d.q), r |-> d.r])

\* a * s^k, taking c factors s at a time (s^c <= Base)
RECURSIVE BigMulPow(_, _, _, _)
BigMulPow(a, s, c, k) ==
  IF k <= 0 THEN a
  ELSE LET j == Min(k, c) IN BigMulPow(BigMulSmall(a, Pow(s, j)), s, c, k - j)

\* floor(a / s^k), and whether anything was cut off
RECURSIVE BigDivPow(_, _, _, _)
BigDivPow(a, s, c, k) ==
  IF k <= 0 THEN [q |-> a, sticky |-> FALSE]
  ELSE With(BigDivSmall(a, Pow(s, Min(k, c))), LAMBDA d :
         With(BigDivPow(d.q, s, c, k - Min(k, c)), LAMBDA rest :
           [q |-> rest.q, sticky |-> rest.sticky \/ d.r # 0]))

\* a number with a sign, and the sum of two
SignedAdd(aneg, a0, bneg, b0) ==
  With(a0, LAMBDA a : With(b0, LAMBDA b :
    IF aneg = bneg THEN [neg |-> aneg, m |-> BigAdd(a, b)]
    ELSE IF BigCmp(a, b) >= 0 THEN [neg |-> aneg, m |-> BigSub(a, b)]
    ELSE [neg |-> bneg, m |-> BigSub(b, a)]))

(***************************************************************************)
(* get_trial_balance sums CAST(debit AS REAL): IEEE doubles.  An SQL       *)
(* number is [real, neg, m, e]: the value (-1)^neg * m * 2^e, REAL or      *)
(* INTEGER.  A REAL has m odd (or 0) and below 2^53, so that equal doubles *)
(* are equal records; every operation rounds to the nearest such value,    *)
(* ties to the even significand.  The exponent range of a double is not    *)
(* modelled: amounts are far from overflow and from the subnormals.        *)
(***************************************************************************)
TwoPow53 == BigMulPow(<<1>>, 2, 13, 53)

TwoPow54 == BigMulPow(<<1>>, 2, 13, 54)

\* an estimate of the number of bits of a > 0
EstBits(a) == Log2(a[Len(a)]) + 1 + ((Len(a) - 1) * 132877) \div 10000

\* floor(N * 2^u / 10^b) for integers u and b of either sign, and whether
\* the division left a remainder
ScaledQuot(N, u, b) ==
  With(BigDivPow(BigMulPow(BigMulPow(N, 2, 13, u), 10, 4, 0 - b), 10, 4, b), LAMBDA d10 :
    With(BigDivPow(d10.q, 2, 13, 0 - u), LAMBDA d2 :
      [q |-> d2.q, sticky |-> d10.sticky \/ d2.sticky]))

\* the u with 2^53 <= floor(N * 2^u / 10^b) < 2^54, searched from u on
RECURSIVE FindScale(_, _, _)
FindScale(N, b, u) ==
  With(ScaledQuot(N, u, b).q, LAMBDA t :
    IF BigCmp(t, TwoPow53) < 0 THEN FindScale(N, b, u + 1)
    ELSE IF BigCmp(t, TwoPow54) >= 0 THEN FindScale(N, b, u - 1)
    ELSE u)

\* m * 2^e with the factors 2 of m moved into e
RECURSIVE StripTwos(_, _)
StripTwos(m, e) ==
  IF m = <<>> THEN [m |-> m, e |-> 0]
  ELSE IF Head(m) % 2 = 1 THEN [m |-> m, e |-> e]
  ELSE With(BigDivSmall(m, 8192), LAMBDA d :
         IF d.r = 0 THEN StripTwos(d.q, e + 13)
         ELSE StripTwos(BigDivSmall(m, 2).q, e + 1))

Double(neg, m, e) ==
  With(StripTwos(m, e), LAMBDA c : [real |-> TRUE, neg |-> neg, m |-> c.m, e |-> c.e])

\* the double nearest to N * 2^e2 / 10^b: 54 bits of the quotient, the last
\* of them and the remainder deciding the rounding of the other 53
RoundReal(neg, N0, e2, b) ==
  With(N0, LAMBDA N :
    IF N = <<>> THEN Double(neg, N, 0)
    ELSE With(FindScale(N, b, 54 - EstBits(N) + (b * 33219) \div 10000), LAMBDA u :
           With(ScaledQuot(N, u, b), LAMBDA t :
             With(BigDivSmall(t.q, 2), LAMBDA h :
               Double(neg,
                      IF h.r = 1 /\ (t.sticky \/ Head(h.q) % 2 = 1)
                        THEN BigAdd(h.q, <<1>>) ELSE h.q,
                      e2 + 1 - u)))))

\* CAST(text AS REAL), text the str() of a finite Decimal
CastReal(text) ==
  With(DecimalParse(text), LAMBDA d :
    RoundReal(d.sign = 1, BigFromDigits(d.int), 0, 0 - d.exp))

SqlInteger(n) == [real |-> FALSE, neg |-> n < 0, m |-> BigFromNat(Abs(n)), e |-> 0]

\* one step of SUM(): an integer while every term is one, else the double
\* sum of the two, rounded
SumStep(a0, b0) ==
  With(a0, LAMBDA a : With(b0, LAMBDA b : With(Min(a.e, b.e), LAMBDA e :
    With(SignedAdd(a.neg, BigMulPow(a.m, 2, 13, a.e - e),
                   b.neg, BigMulPow(b.m, 2, 13, b.e - e)), LAMBDA s :
      IF ~a.real /\ ~b.real
        THEN [real |-> FALSE, neg |-> s.neg /\ s.m # <<>>, m |-> s.m, e |-> 0]
      ELSE RoundReal(s.neg /\ s.m # <<>>, s.m, e, 0)))))

\* CASE WHEN col IS NOT NULL THEN CAST(col AS REAL) ELSE 0 END
SumTerm(row, col) == IF row[col] # None THEN CastReal(row[col][1]) ELSE SqlInteger(0)

\* SUM(...) over the rows of one group (a group has at least one row), in
\* the order of the scan
RECURSIVE SumColumn(_, _)
SumColumn(rows, col) ==
  IF Len(rows) = 1 THEN SumTerm(rows[1], col)
  ELSE SumStep(SumColumn(SubSeq(rows, 1, Len(rows) - 1), col), SumTerm(rows[Len(rows)], col))

\* the digits and decimal exponent of the exact value of the double x # 0
ExactDecimal(x) ==
  IF x.e >= 0 THEN [digits |-> BigToDigits(BigMulPow(x.m, 2, 13, x.e)), exp |-> 0]
  ELSE [digits |-> BigToDigits(BigMulPow(x.m, 5, 5, 0 - x.e)), exp |-> x.e]

RECURSIVE StripTrailingZeros(_)
StripTrailingZeros(d) ==
  IF Len(d.digits) > 1 /\ d.digits[Len(d.digits)] = "0"
    THEN StripTrailingZeros([digits |-> SubSeq(d.digits, 1, Len(d.digits) - 1),
                             exp |-> d.exp + 1])
  ELSE d

\* d rounded to its first n digits (n < Len(d.digits)), ties to even
RoundDigits(d, n) ==
  LET keep == SubSeq(d.digits, 1, n)
      rest == SubSeq(d.digits, n + 1, Len(d.digits))
      first == DigitVal(rest[1])
      up == \/ first > 5
            \/ /\ first = 5
               /\ \/ \E i \in 2..Len(rest) : rest[i] # "0"
                  \/ DigitVal(keep[n]) % 2 = 1
  IN  [digits |-> IF up THEN BigToDigits(BigAdd(BigFromDigits(keep), <<1>>)) ELSE keep,
       exp |-> d.exp + Len(rest)]

\* float.__repr__: the fewest digits, from n on, that read back as x
RECURSIVE ShortestDigits(_, _, _)
ShortestDigits(x, d, n) ==
  IF n >= Len(d.digits) THEN d
  ELSE With(RoundDigits(d, n), LAMBDA cand :
         IF n >= 17 \/ RoundReal(x.neg, BigFromDigits(cand.digits), 0, 0 - cand.exp) = x
           THEN cand
         ELSE ShortestDigits(x, d, n + 1))

\* str() of the Python value sqlite3 returns: an int, or a float (repr)
\* x as the digits ds and the place decpt of the decimal point
FloatRepr(sign, ds, decpt) ==
  IF decpt > 16 \/ decpt < -3
    THEN sign \o <<Head(ds)>> \o (IF Len(ds) > 1 THEN <<".">> \o Tail(ds) ELSE <<>>)
           \o <<"e", IF decpt - 1 < 0 THEN "-" ELSE "+">> \o Pad(Abs(decpt - 1), 2)
  ELSE IF decpt <= 0 THEN sign \o <<"0", ".">> \o Zeros(0 - decpt) \o ds
  ELSE IF decpt >= Len(ds) THEN sign \o ds \o Zeros(decpt - Len(ds)) \o <<".", "0">>
  ELSE sign \o SubSeq(ds, 1, decpt) \o <<".">> \o SubSeq(ds, decpt + 1, Len(ds))

\* str() of the Python value sqlite3 returns: an int, or a float (repr)
PyStr(x0) ==
  With(x0, LAMBDA x :
    IF ~x.real THEN (IF x.neg THEN <<"-">> ELSE <<>>) \o BigToDigits(x.m)
    ELSE IF x.m = <<>> THEN (IF x.neg THEN <<"-">> ELSE <<>>) \o <<"0", ".", "0">>
    ELSE With(StripTrailingZeros(ExactDecimal(x)), LAMBDA d :
           With(StripTrailingZeros(ShortestDigits(x, d, 1)), LAMBDA s :
             FloatRepr(IF x.neg THEN <<"-">> ELSE <<>>, s.digits, Len(s.digits) + s.exp))))

(***************************************************************************)
(* storage.py: the database.  A table is the sequence of its rows in rowid *)
(* order.  A connection is the tables as the open transaction sees them,   *)
(* with err the exception raised so far ("ok": none); a statement on a     *)
(* connection that has raised does nothing, as the exception has already   *)
(* left the handler.                                                       *)
(***************************************************************************)
TriggerNames ==
  { "prevent_journal_entry_update", "prevent_journal_entry_delete",
    "prevent_line_item_update", "prevent_line_item_delete" }

\* _init_db without the DELETE trigger of line_items
InitTriggersNoLineItemDelete == TriggerNames \ {"prevent_line_item_delete"}

\* _init_db: the triggers it creates
InitTriggers == TriggerNames

\* CHECK (type IN (...)) of the accounts table
AccountTypeCheck == {"asset", "liability", "income", "expense", "capital", "drawings"}

\* a CHECK that asks only for an amount: debit or credit is not NULL
LineItemCheckSomeAmount(debit, credit) == debit # None \/ credit # None

\* CHECK of the line_items table: exactly one of debit and credit is not NULL
LineItemCheck(debit, credit) ==
  \/ debit # None /\ credit = None
  \/ debit = None /\ credit # None

get_connection ==
  [journal_entries |-> journal_entries, line_items |-> line_items,
   accounts |-> accounts, sqlite_sequence |-> sqlite_sequence, err |-> "ok"]

RECURSIVE MaxId(_)
MaxId(rows) == IF rows = <<>> THEN 0 ELSE Max(Head(rows).id, MaxId(Tail(rows)))

\* rowids counted from the rows stored: zero for the first
NextRowidFromCount(rows, seq) == Len(rows)

\* INTEGER PRIMARY KEY AUTOINCREMENT: one more than the largest rowid ever used
NextRowid(rows, seq) == Max(seq, MaxId(rows)) + 1

\* SELECT id FROM accounts WHERE name = ?
SelectAccount(conn, name) ==
  SelectSeq(conn.accounts, LAMBDA r : r.name = name)

InsertAccount(conn, name, type, parent_id) ==
  IF conn.err # "ok" THEN conn
  ELSE IF SelectAccount(conn, name) # <<>> \/ type \notin AccountTypeCheck
    THEN [conn EXCEPT !.err = "IntegrityError"]
  ELSE LET id == NextRowid(conn.accounts, conn.sqlite_sequence.accounts)
       IN  [conn EXCEPT
              !.accounts = Append(@, [id |-> id, name |-> name, type |-> type,
                                      parent_id |-> parent_id]),
              !.sqlite_sequence.accounts = id]

InsertJournalEntry(conn, description, timestamp) ==
  IF conn.err # "ok" THEN conn
  ELSE LET id == NextRowid(conn.journal_entries, conn.sqlite_sequence.journal_entries)
       IN  [conn EXCEPT
              !.journal_entries = Append(@, [id |-> id, description |-> description,
                                             timestamp |-> timestamp]),
              !.sqlite_sequence.journal_entries = id]

InsertLineItem(conn, journal_entry_id, account, debit, credit) ==
  IF conn.err # "ok" THEN conn
  ELSE IF ~LineItemCheck(debit, credit)
    THEN [conn EXCEPT !.err = "IntegrityError"]
  ELSE LET id == NextRowid(conn.line_items, conn.sqlite_sequence.line_items)
       IN  [conn EXCEPT
              !.line_items = Append(@, [id |-> id, journal_entry_id |-> journal_entry_id,
                                        account |-> account, debit |-> debit,
                                        credit |-> credit]),
              !.sqlite_sequence.line_items = id]

\* a connection that commits on every exit, also when the block raised
ConnExitAlwaysCommit(before, after) == after

\* `with conn:` on leaving the block: commit, or roll back when it raised
ConnExit(before, after) ==
  IF after.err = "ok" THEN after
  ELSE [before EXCEPT !.err = after.err]

\* the loop with parent_id taken from the root account instead of the
\* immediately shorter prefix
RECURSIVE ensure_prefixes_root_parent(_, _, _, _)
ensure_prefixes_root_parent(conn, acct_type, segments, i) ==
  IF i > Len(segments) \/ conn.err # "ok" THEN conn
  ELSE LET path == join(SubSeq(segments, 1, i), ":")
           parent_row == IF i > 1 THEN SelectAccount(conn, segments[1]) ELSE <<>>
           parent_id == IF parent_row # <<>> THEN Some(parent_row[1].id) ELSE None
       IN  IF SelectAccount(conn, path) # <<>>
             THEN ensure_prefixes_root_parent(conn, acct_type, segments, i + 1)
           ELSE ensure_prefixes_root_parent(InsertAccount(conn, path, acct_type, parent_id),
                                            acct_type, segments, i + 1)

\* the loop without the SELECT that skips an account already stored
RECURSIVE ensure_prefixes_no_lookup(_, _, _, _)
ensure_prefixes_no_lookup(conn, acct_type, segments, i) ==
  IF i > Len(segments) \/ conn.err # "ok" THEN conn
  ELSE LET path == join(SubSeq(segments, 1, i), ":")
           parent_row == IF i > 1
                           THEN SelectAccount(conn, join(SubSeq(segments, 1, i - 1), ":"))
                           ELSE <<>>
           parent_id == IF parent_row # <<>> THEN Some(parent_row[1].id) ELSE None
       IN  ensure_prefixes_no_lookup(InsertAccount(conn, path, acct_type, parent_id),
                                     acct_type, segments, i + 1)

\* the loop of _ensure_account from prefix i on
RECURSIVE ensure_prefixes(_, _, _, _)
ensure_prefixes(conn, acct_type, segments, i) ==
  IF i > Len(segments) \/ conn.err # "ok" THEN conn
  ELSE LET path == join(SubSeq(segments, 1, i), ":")
           existing == SelectAccount(conn, path)
       IN  IF existing # <<>>
             THEN ensure_prefixes(conn, acct_type, segments, i + 1)
           ELSE LET parent_row == IF i > 1
                                    THEN SelectAccount(conn, join(SubSeq(segments, 1, i - 1), ":"))
                                    ELSE <<>>
                    parent_id == IF parent_row # <<>> THEN Some(parent_row[1].id) ELSE None
                IN  ensure_prefixes(InsertAccount(conn, path, acct_type, parent_id),
                                    acct_type, segments, i + 1)

ensure_account(conn, account_name) ==
  IF conn.err # "ok" THEN conn
  ELSE LET name == lower(account_name)
           p == parse_account_path(name)
       IN  IF p.err # "ok" THEN [conn EXCEPT !.err = p.err]
           ELSE ensure_prefixes(conn, p.type, p.segments, 1)

\* add, first loop: _ensure_account for every line item, in order
RECURSIVE EnsureAll(_, _)
EnsureAll(conn, items) ==
  IF items = <<>> THEN conn
  ELSE EnsureAll(ensure_account(conn, Head(items).account), Tail(items))

\* the second loop leaving after its first INSERT
InsertItemsFirstOnly(conn, entry_id, items) ==
  IF items = <<>> THEN conn
  ELSE LET item == Head(items)
       IN  InsertLineItem(conn, entry_id, lower(item.account),
                          IF item.debit # None THEN Some(DecimalStr(item.debit[1])) ELSE None,
                          IF item.credit # None THEN Some(DecimalStr(item.credit[1])) ELSE None)

\* add, second loop: one INSERT INTO line_items per line item, in order
RECURSIVE InsertItems(_, _, _)
InsertItems(conn, entry_id, items) ==
  IF items = <<>> THEN conn
  ELSE LET item == Head(items)
       IN  InsertItems(
             InsertLineItem(conn, entry_id, lower(item.account),
                            IF item.debit # None THEN Some(DecimalStr(item.debit[1])) ELSE None,
                            IF item.credit # None THEN Some(DecimalStr(item.credit[1])) ELSE None),
             entry_id, Tail(items))

\* the body of add, up to conn.commit(): the connection and cursor.lastrowid
AddBody(conn, entry) ==
  LET c1 == EnsureAll(conn, entry.line_items)
      c2 == InsertJournalEntry(c1, entry.description, isoformat(entry.timestamp))
      entry_id == c2.sqlite_sequence.journal_entries
  IN  [conn |-> InsertItems(c2, entry_id, entry.line_items), entry_id |-> entry_id]

\* the rows of a table WHERE id = ?
RowsById(rows, id) == SelectSeq(rows, LAMBDA r : r.id = id)

\* _load_entry reading the amounts through float: Decimal(str(float(text)))
load_entry_through_float(conn, row) ==
  LET items == SelectSeq(conn.line_items, LAMBDA r : r.journal_entry_id = row.id)
  IN  [id |-> row.id,
       description |-> row.description,
       timestamp |-> fromisoformat(row.timestamp),
       line_items |->
         [i \in 1..Len(items) |->
            [id |-> items[i].id,
             account |-> items[i].account,
             debit |-> IF items[i].debit # None
                         THEN Some(DecimalParse(PyStr(CastReal(items[i].debit[1])))) ELSE None,
             credit |-> IF items[i].credit # None
                          THEN Some(DecimalParse(PyStr(CastReal(items[i].credit[1])))) ELSE None]]]

\* _load_entry: SELECT * FROM line_items WHERE journal_entry_id = ? scans the
\* table in rowid order (the table has no index to scan instead).
load_entry(conn, row) ==
  LET items == SelectSeq(conn.line_items, LAMBDA r : r.journal_entry_id = row.id)
  IN  [id |-> row.id,
       description |-> row.description,
       timestamp |-> fromisoformat(row.timestamp),
       line_items |->
         [i \in 1..Len(items) |->
            [id |-> items[i].id,
             account |-> items[i].account,
             debit |-> IF items[i].debit # None
                         THEN Some(DecimalParse(items[i].debit[1])) ELSE None,
             credit |-> IF items[i].credit # None
                          THEN Some(DecimalParse(items[i].credit[1])) ELSE None]]]

\* ORDER BY timestamp DESC: the sorter keeps rows of equal timestamp in the
\* order of the scan, which is rowid order.
RECURSIVE OrderByTimestampDesc(_)
OrderByTimestampDesc(rows) ==
  IF rows = <<>> THEN <<>>
  ELSE LET sorted == OrderByTimestampDesc(SubSeq(rows, 1, Len(rows) - 1))
           r == rows[Len(rows)]
           k == Cardinality({i \in 1..Len(sorted) :
                               ~TextLess(sorted[i].timestamp, r.timestamp)})
       IN  SubSeq(sorted, 1, k) \o <<r>> \o SubSeq(sorted, k + 1, Len(sorted))

\* SQLite's LIKE: % is any run of characters, _ any one character, and ASCII
\* letters match without regard to case.
RECURSIVE Like(_, _)
Like(pattern, text) ==
  IF pattern = <<>> THEN text = <<>>
  ELSE IF Head(pattern) = "%"
    THEN \E k \in 0..Len(text) : Like(Tail(pattern), SubSeq(text, k + 1, Len(text)))
  ELSE IF text = <<>> THEN FALSE
  ELSE IF Head(pattern) = "_" THEN Like(Tail(pattern), Tail(text))
  ELSE LowerChar(Head(pattern)) = LowerChar(Head(text)) /\ Like(Tail(pattern), Tail(text))

\* WHERE account = ? OR account LIKE ?  with (account, account + ":%")
AccountFilter(row_account, account) ==
  row_account = account \/ Like(account \o <<":", "%">>, row_account)

get_all(conn) ==
  LET entries == OrderByTimestampDesc(conn.journal_entries)
  IN  [i \in 1..Len(entries) |-> load_entry(conn, entries[i])]

get_by_id(conn, entry_id) ==
  LET row == RowsById(conn.journal_entries, entry_id)
  IN  IF row = <<>> THEN None ELSE Some(load_entry(conn, row[1]))

get_by_account(conn, account0) ==
  LET account == lower(account0)
      ids == {conn.line_items[i].journal_entry_id :
                i \in {j \in 1..Len(conn.line_items) :
                         AccountFilter(conn.line_items[j].account, account)}}
      entries == OrderByTimestampDesc(
                   SelectSeq(conn.journal_entries, LAMBDA r : r.id \in ids))
  IN  IF ids = {} THEN <<>>
      ELSE [i \in 1..Len(entries) |-> load_entry(conn, entries[i])]

\* ascending memcmp order of a set of texts (ORDER BY name, ORDER BY account)
RECURSIVE SortTexts(_)
SortTexts(S) ==
  IF S = {} THEN <<>>
  ELSE LET m == CHOOSE x \in S : \A y \in S \ {x} : TextLess(x, y)
       IN  <<m>> \o SortTexts(S \ {m})

\* account_type: None, or Some(type); an empty type string is falsy
get_accounts(conn, account_type) ==
  LET rows == IF account_type # None /\ account_type[1] # ""
                THEN SelectSeq(conn.accounts, LAMBDA r : r.type = account_type[1])
                ELSE conn.accounts
      names == SortTexts({rows[i].name : i \in 1..Len(rows)})
  IN  [i \in 1..Len(names) |->
         LET row == SelectSeq(rows, LAMBDA r : r.name = names[i])[1]
         IN  [id |-> row.id, name |-> row.name, type |-> row.type,
              parent_id |-> row.parent_id]]

(***************************************************************************)
(* get_trial_balance                                                       *)
(***************************************************************************)
\* the coefficient of d at the exponent e <= d.exp, with its sign
DecimalAt(d, e) ==
  [neg |-> d.sign = 1, m |-> BigMulPow(BigFromDigits(d.int), 10, 4, d.exp - e)]

DecimalFromBig(s0, e) ==
  With(s0, LAMBDA s :
    [sign |-> IF s.neg /\ s.m # <<>> THEN 1 ELSE 0, int |-> BigToDigits(s.m), exp |-> e])

DecimalFromInt(n, e) ==
  [sign |-> IF n < 0 THEN 1 ELSE 0, int |-> NatStr(Abs(n)), exp |-> e]

\* Decimal + Decimal and Decimal - Decimal (exact: below the context precision
\* of 28 digits)
DecimalAdd(a0, b0) ==
  With(a0, LAMBDA a : With(b0, LAMBDA b : With(Min(a.exp, b.exp), LAMBDA e :
    With(DecimalAt(a, e), LAMBDA x : With(DecimalAt(b, e), LAMBDA y :
      DecimalFromBig(SignedAdd(x.neg, x.m, y.neg, y.m), e))))))

DecimalSub(a0, b0) ==
  With(a0, LAMBDA a : With(b0, LAMBDA b : With(Min(a.exp, b.exp), LAMBDA e :
    With(DecimalAt(a, e), LAMBDA x : With(DecimalAt(b, e), LAMBDA y :
      DecimalFromBig(SignedAdd(x.neg, x.m, ~y.neg, y.m), e))))))

\* Decimal == Decimal compares the numbers, not the digits: Decimal("50.0") == Decimal("50")
DecimalEq(a0, b0) ==
  With(a0, LAMBDA a : With(b0, LAMBDA b : With(Min(a.exp, b.exp), LAMBDA e :
    With(DecimalAt(a, e), LAMBDA x : With(DecimalAt(b, e), LAMBDA y :
      x.m = y.m /\ (x.m = <<>> \/ x.neg = y.neg))))))

\* account: None, or Some(path); `if account:` is false for the empty path too.
\* The dict returned is the sequence of its items, in insertion order.
get_trial_balance(conn, account) ==
  LET scoped == account # None /\ account[1] # <<>>
      filtered == IF scoped
                    THEN SelectSeq(conn.line_items,
                                   LAMBDA r : AccountFilter(r.account, lower(account[1])))
                    ELSE conn.line_items
      groups == SortTexts({filtered[i].account : i \in 1..Len(filtered)})
  IN  [i \in 1..Len(groups) |->
         LET rows == SelectSeq(filtered, LAMBDA r : r.account = groups[i])
             total_debits == DecimalParse(PyStr(SumColumn(rows, "debit")))
             total_credits == DecimalParse(PyStr(SumColumn(rows, "credit")))
         IN  [account |-> groups[i], debits |-> total_debits, credits |-> total_credits,
              net |-> DecimalSub(total_debits, total_credits)]]

(***************************************************************************)
(* Statements sent straight to the database file, as the tests do through  *)
(* storage._get_connection().  A BEFORE trigger runs for each row the      *)
(* statement is about to change; RAISE(ABORT, msg) undoes the statement    *)
(* and raises sqlite3.IntegrityError(msg).                                 *)
(***************************************************************************)
sql_update_journal_entry(conn, trg, id, description) ==
  IF RowsById(conn.journal_entries, id) = <<>> THEN conn
  ELSE IF "prevent_journal_entry_update" \in trg
    THEN [conn EXCEPT !.err = "Journal entries cannot be modified"]
  ELSE [conn EXCEPT !.journal_entries =
          [i \in 1..Len(@) |-> IF @[i].id = id
                                 THEN [@[i] EXCEPT !.description = description]
                                 ELSE @[i]]]

sql_delete_journal_entry(conn, trg, id) ==
  IF RowsById(conn.journal_entries, id) = <<>> THEN conn
  ELSE IF "prevent_journal_entry_delete" \in trg
    THEN [conn EXCEPT !.err = "Journal entries cannot be deleted"]
  ELSE [conn EXCEPT !.journal_entries = SelectSeq(@, LAMBDA r : r.id # id)]

sql_update_line_item(conn, trg, id, debit) ==
  LET row == RowsById(conn.line_items, id)
  IN  IF row = <<>> THEN conn
      ELSE IF "prevent_line_item_update" \in trg
        THEN [conn EXCEPT !.err = "Line items cannot be modified"]
      ELSE IF ~LineItemCheck(Some(debit), row[1].credit)
        THEN [conn EXCEPT !.err = "IntegrityError"]
      ELSE [conn EXCEPT !.line_items =
              [i \in 1..Len(@) |-> IF @[i].id = id
                                     THEN [@[i] EXCEPT !.debit = Some(debit)]
                                     ELSE @[i]]]

sql_delete_line_item(conn, trg, id) ==
  IF RowsById(conn.line_items, id) = <<>> THEN conn
  ELSE IF "prevent_line_item_delete" \in trg
    THEN [conn EXCEPT !.err = "Line items cannot be deleted"]
  ELSE [conn EXCEPT !.line_items = SelectSeq(@, LAMBDA r : r.id # id)]

(***************************************************************************)
(* Inputs                                                                  *)
(***************************************************************************)
MaxEntries == 2

p_cash    == s_assets \o <<":", "c", "a", "s", "h">>
p_Cash_X  == <<"A", "s", "s", "e", "t", "s", ":", "C", "a", "s", "h", ":", "X">>
p_cashbox == s_assets \o <<":", "c", "a", "s", "h", "b", "o", "x">>
p_rev     == s_income \o <<":", " ", "r", "e", "v">>
p_badroot == <<"b", "a", "d", "r", "o", "o", "t", ":", "f", "o", "o">>
p_empty   == <<>>

d_50_00 == [sign |-> 0, int |-> <<"5", "0", "0", "0">>, exp |-> -2]
d_0_5   == [sign |-> 0, int |-> <<"5">>, exp |-> -1]
d_1     == [sign |-> 0, int |-> <<"1">>, exp |-> 0]

Amounts == {d_50_00, d_0_5, d_1}

Debit(account, amount) == [account |-> account, debit |-> Some(amount), credit |-> None]
Credit(account, amount) == [account |-> account, debit |-> None, credit |-> Some(amount)]

Items ==
  { Debit(p_cash, d_50_00), Credit(p_Cash_X, d_50_00), Credit(p_rev, d_0_5),
    Debit(p_badroot, d_50_00), Credit(p_empty, d_50_00) }

t_jan15 == [year |-> 2024, month |-> 1, day |-> 15, hour |-> 10, minute |-> 30,
            second |-> 0, microsecond |-> 0]
t_jan15_half == [t_jan15 EXCEPT !.microsecond = 500000]

\* the entries of SpecAdd: every pair of Items, at one timestamp
Entries ==
  { [description |-> "Test", timestamp |-> t_jan15, line_items |-> <<a, b>>] :
      a \in Items, b \in Items }

\* the entries of Spec: two at the same timestamp, one later, one rejected
e_salary  == [description |-> "Salary", timestamp |-> t_jan15,
              line_items |-> <<Debit(p_cash, d_50_00), Credit(p_rev, d_50_00)>>]
e_petty   == [description |-> "Petty cash", timestamp |-> t_jan15,
              line_items |-> <<Debit(p_cashbox, d_1), Credit(p_Cash_X, d_0_5)>>]
e_later   == [e_salary EXCEPT !.timestamp = t_jan15_half]
e_badroot == [description |-> "Bad", timestamp |-> t_jan15,
              line_items |-> <<Debit(p_badroot, d_1), Credit(p_cash, d_1)>>]

SmallEntries == {e_salary, e_petty, e_later, e_badroot}

Queries ==
  { p_cash, s_assets, <<"A", "S", "S", "E", "T", "S">>, <<"a", "%">>,
    s_assets \o <<":", "c", "_", "s", "h">>, <<"n", "o", "n", "e">>, <<>> }

EntryIds == 1..(MaxEntries + 1)
LineItemIds == {2 * id - 1 : id \in EntryIds}

(***************************************************************************)
(* The state machine                                                       *)
(***************************************************************************)
Result(op, arg, err, val) == [op |-> op, arg |-> arg, err |-> err, val |-> val]

\* the state after TransactionStorage.init_database(path) on a fresh path
Init ==
  /\ journal_entries = <<>>
  /\ line_items = <<>>
  /\ accounts = <<>>
  /\ sqlite_sequence = [journal_entries |-> 0, line_items |-> 0, accounts |-> 0]
  /\ triggers = InitTriggers
  /\ db_exists = TRUE
  /\ result = Result("init_database", None, "ok", None)

\* what the connection leaves in the file
Store(conn) ==
  /\ journal_entries' = conn.journal_entries
  /\ line_items' = conn.line_items
  /\ accounts' = conn.accounts
  /\ sqlite_sequence' = conn.sqlite_sequence

Add(entry) ==
  /\ Len(journal_entries) < MaxEntries
  /\ LET r == AddBody(get_connection, entry)
         conn == ConnExit(get_connection, r.conn)
     IN  /\ Store(conn)
         /\ result' = Result("add", entry, conn.err,
                             IF conn.err = "ok" THEN Some(r.entry_id) ELSE None)
  /\ UNCHANGED <<triggers, db_exists>>

GetAll ==
  /\ result' = Result("get_all", None, "ok", get_all(get_connection))
  /\ UNCHANGED <<tables, triggers, db_exists>>

GetById(entry_id) ==
  /\ result' = Result("get_by_id", entry_id, "ok", get_by_id(get_connection, entry_id))
  /\ UNCHANGED <<tables, triggers, db_exists>>

GetByAccount(account) ==
  /\ result' = Result("get_by_account", account, "ok",
                      get_by_account(get_connection, account))
  /\ UNCHANGED <<tables, triggers, db_exists>>

GetAccounts(account_type) ==
  /\ result' = Result("get_accounts", account_type, "ok",
                      get_accounts(get_connection, account_type))
  /\ UNCHANGED <<tables, triggers, db_exists>>

GetTrialBalance(account) ==
  /\ result' = Result("get_trial_balance", account, "ok",
                      get_trial_balance(get_connection, account))
  /\ UNCHANGED <<tables, triggers, db_exists>>

\* a statement run on its own connection; its changes are committed unless it raised
SqlStatement(op, arg, conn) ==
  /\ Store(ConnExit(get_connection, conn))
  /\ result' = Result(op, arg, conn.err, None)
  /\ UNCHANGED <<triggers, db_exists>>

UpdateJournalEntry(id) ==
  SqlStatement("UPDATE journal_entries", id,
               sql_update_journal_entry(get_connection, triggers, id, "hacked"))

DeleteJournalEntry(id) ==
  SqlStatement("DELETE FROM journal_entries", id,
               sql_delete_journal_entry(get_connection, triggers, id))

UpdateLineItem(id) ==
  SqlStatement("UPDATE line_items", id,
               sql_update_line_item(get_connection, triggers, id,
                                    <<"9", "9", "9", ".", "9", "9">>))

DeleteLineItem(id) ==
  SqlStatement("DELETE FROM line_items", id,
               sql_delete_line_item(get_connection, triggers, id))

Next ==
  \/ \E entry \in SmallEntries : Add(entry)
  \/ GetAll
  \/ \E id \in EntryIds : GetById(id)
  \/ \E account \in Queries : GetByAccount(account)
  \/ \E t \in {None, Some("asset")} : GetAccounts(t)
  \/ \E account \in {None} \cup {Some(q) : q \in Queries} : GetTrialBalance(account)
  \/ \E id \in EntryIds : UpdateJournalEntry(id)
  \/ \E id \in EntryIds : DeleteJournalEntry(id)
  \/ \E id \in LineItemIds : UpdateLineItem(id)
  \/ \E id \in LineItemIds : DeleteLineItem(id)

Spec == Init /\ [][Next]_vars

\* add calls alone, over every pair of Items
NextAdd == \E entry \in Entries : Add(entry)

SpecAdd == Init /\ [][NextAdd]_vars

\* amounts a double does not hold exactly
d_0_1  == [sign |-> 0, int |-> <<"1">>, exp |-> -1]
d_0_2  == [sign |-> 0, int |-> <<"2">>, exp |-> -1]
d_0_3  == [sign |-> 0, int |-> <<"3">>, exp |-> -1]
d_2_53_1 == [sign |-> 0, exp |-> 0,
             int |-> <<"9", "0", "0", "7", "1", "9", "9", "2", "5", "4", "7", "4", "0",
                       "9", "9", "3">>]

\* balanced entries: 0.1 + 0.2 against 0.3, and 2^53 + 1 on both sides
e_tenths == [description |-> "Tenths", timestamp |-> t_jan15,
             line_items |-> <<Debit(p_cash, d_0_1), Debit(p_cash, d_0_2),
                              Credit(p_rev, d_0_3)>>]
e_wide   == [description |-> "Wide", timestamp |-> t_jan15,
             line_items |-> <<Debit(p_cashbox, d_2_53_1), Credit(p_rev, d_2_53_1)>>]

BalanceEntries == SmallEntries \cup {e_tenths, e_wide}

\* add calls and the trial balance, whole and scoped
NextBalance ==
  \/ \E entry \in BalanceEntries : Add(entry)
  \/ \E account \in {None, Some(s_assets), Some(s_income)} : GetTrialBalance(account)

SpecBalance == Init /\ [][NextBalance]_vars

(***************************************************************************)
(* The database file.  db_exists is db_path.exists(); while it is FALSE    *)
(* there are no tables and no triggers.  A TransactionStorage, and with it *)
(* add, is at hand only once the constructor has returned.                 *)
(***************************************************************************)
\* __init__ without the test of db_path.exists()
TransactionStorageNoCheck(exists, require_init) == "ok"

\* TransactionStorage.__init__: the exception it raises, "ok" for none
TransactionStorage(exists, require_init) ==
  IF require_init /\ ~exists THEN "DatabaseNotInitializedError" ELSE "ok"

\* _init_db: CREATE TABLE IF NOT EXISTS leaves the rows of a table that is
\* there, CREATE TRIGGER IF NOT EXISTS adds the triggers that are missing
init_db(trg) == trg \cup InitTriggers

\* no file at db_path
InitNoFile ==
  /\ journal_entries = <<>>
  /\ line_items = <<>>
  /\ accounts = <<>>
  /\ sqlite_sequence = [journal_entries |-> 0, line_items |-> 0, accounts |-> 0]
  /\ triggers = {}
  /\ db_exists = FALSE
  /\ result = Result("start", None, "ok", None)

\* TransactionStorage(db_path)
Open ==
  /\ result' = Result("open", None, TransactionStorage(db_exists, TRUE), None)
  /\ UNCHANGED <<tables, triggers, db_exists>>

\* what init_database leaves at db_path: sqlite3.connect creates the file
InitDatabaseEffect(err) ==
  IF err = "ok"
    THEN /\ db_exists' = TRUE
         /\ triggers' = init_db(triggers)
         /\ UNCHANGED tables
    ELSE UNCHANGED <<tables, triggers, db_exists>>

\* TransactionStorage.init_database(db_path)
InitDatabase ==
  LET err == TransactionStorage(db_exists, FALSE)
  IN  /\ result' = Result("init_database", None, err, None)
      /\ InitDatabaseEffect(err)

\* cli.cmd_init, the folder being a directory: val is the exit code
CmdInit ==
  IF db_exists
    THEN /\ result' = Result("cmd_init", None, "Database already exists", Some(1))
         /\ UNCHANGED <<tables, triggers, db_exists>>
    ELSE LET err == TransactionStorage(db_exists, FALSE)
         IN  /\ result' = Result("cmd_init", None, err, Some(0))
             /\ InitDatabaseEffect(err)

NextLifecycle ==
  \/ Open
  \/ InitDatabase
  \/ CmdInit
  \/ db_exists /\ \E entry \in BalanceEntries : Add(entry)

SpecLifecycle == InitNoFile /\ [][NextLifecycle]_vars

(***************************************************************************)
(* add with line items the dataclass allows and the table does not: both   *)
(* amounts set, or neither.                                                *)
(***************************************************************************)
i_both    == [account |-> p_cashbox, debit |-> Some(d_1), credit |-> Some(d_1)]
i_neither == [account |-> p_rev, debit |-> None, credit |-> None]

CheckItems ==
  { Debit(p_cash, d_50_00), Credit(p_Cash_X, d_50_00), Credit(p_rev, d_0_5),
    i_both, i_neither }

CheckEntries ==
  { [description |-> "Test", timestamp |-> t_jan15, line_items |-> <<a, b>>] :
      a \in CheckItems, b \in CheckItems }

NextCheck == \E entry \in CheckEntries : Add(entry)

SpecCheck == Init /\ [][NextCheck]_vars

(***************************************************************************)
(* parse_account_path on its own: the name is drawn at the start and       *)
(* parsed in one step.                                                     *)
(***************************************************************************)
MaxFragment == 2

NameChars == {" ", "\t", ":", "x", "Q"}

\* every string over NameChars of at most n characters
RECURSIVE Fragments(_)
Fragments(n) ==
  IF n = 0 THEN {<<>>}
  ELSE Fragments(n - 1) \cup {Append(f, c) : f \in Fragments(n - 1), c \in NameChars}

\* roots as a caller may write them, and two names that are no root
RootsWritten ==
  DOMAIN ACCOUNT_TYPES
    \cup { <<"A", "s", "s", "e", "t", "s">>, <<"I", "N", "C", "O", "M", "E">>,
           <<"a", "s", "s", "e", "t">>, p_badroot }

Names ==
  Fragments(MaxFragment)
    \cup { pre \o r \o suf : pre \in {<<>>, <<" ">>}, r \in RootsWritten,
                             suf \in Fragments(MaxFragment) }

InitParse ==
  /\ journal_entries = <<>>
  /\ line_items = <<>>
  /\ accounts = <<>>
  /\ sqlite_sequence = [journal_entries |-> 0, line_items |-> 0, accounts |-> 0]
  /\ triggers = {}
  /\ db_exists = FALSE
  /\ \E name \in Names : result = Result("name", name, "ok", None)

\* parse_account_path(name): the ValueError, or (type, segments)
Parse ==
  /\ result.op = "name"
  /\ LET p == parse_account_path(result.arg)
     IN  result' = Result("parse_account_path", result.arg, p.err,
                          IF p.err = "ok" THEN Some(<<p.type, p.segments>>) ELSE None)
  /\ UNCHANGED <<tables, triggers, db_exists>>

NextParse == Parse

SpecParse == InitParse /\ [][NextParse]_vars

(***************************************************************************)
(* Properties                                                              *)
(***************************************************************************)
StartsWith(s, prefix) ==
  Len(s) >= Len(prefix) /\ SubSeq(s, 1, Len(prefix)) = prefix

\* the step is add(entry) and some line item's account path fails parsing
AddOfUnparsable ==
  /\ result'.op = "add"
  /\ \E i \in 1..Len(result'.arg.line_items) :
       parse_account_path(result'.arg.line_items[i].account).err # "ok"

\* C1: an add whose entry has a line item with an unparsable account path, at
\* any position, fails with the invalid-name or invalid-root error and leaves
\* the stored journal entries, line items and accounts exactly as they were.
C1_FailedAddChangesNothing ==
  [][AddOfUnparsable =>
       /\ result'.err \in {"InvalidAccountName", "InvalidAccountRoot"}
       /\ result'.val = None
       /\ journal_entries' = journal_entries
       /\ line_items' = line_items
       /\ accounts' = accounts]_vars

\* C1 happens: an add failed on its second line item after a first line item
\* whose account was valid and not stored.
C1_Witness ==
  /\ result.op = "add"
  /\ result.err = "InvalidAccountRoot"
  /\ LET p == parse_account_path(result.arg.line_items[1].account)
     IN  /\ p.err = "ok"
         /\ SelectAccount(get_connection, join(p.segments, ":")) = <<>>

SqlOps ==
  { "UPDATE journal_entries", "DELETE FROM journal_entries",
    "UPDATE line_items", "DELETE FROM line_items" }

ImmutableLedger ==
  [op \in SqlOps |->
     CASE op = "UPDATE journal_entries" -> "Journal entries cannot be modified"
       [] op = "DELETE FROM journal_entries" -> "Journal entries cannot be deleted"
       [] op = "UPDATE line_items" -> "Line items cannot be modified"
       [] op = "DELETE FROM line_items" -> "Line items cannot be deleted"]

\* the statement of result is aimed at a row that is stored
AimedAtStoredRow(res, entries, items) ==
  /\ res.op \in SqlOps
  /\ \/ res.op \in {"UPDATE journal_entries", "DELETE FROM journal_entries"}
          /\ RowsById(entries, res.arg) # <<>>
     \/ res.op \in {"UPDATE line_items", "DELETE FROM line_items"}
          /\ RowsById(items, res.arg) # <<>>

\* C2: an UPDATE or DELETE aimed at a stored journal entry or line item fails
\* with the immutable-ledger error and every stored row is left as it was.
C2_LedgerImmutable ==
  [][AimedAtStoredRow(result', journal_entries, line_items) =>
       /\ result'.err = ImmutableLedger[result'.op]
       /\ journal_entries' = journal_entries
       /\ line_items' = line_items]_vars

\* C2 happens: a DELETE aimed at a stored line item was refused.
C2_Witness ==
  /\ AimedAtStoredRow(result, journal_entries, line_items)
  /\ result.op = "DELETE FROM line_items"
  /\ result.err = "Line items cannot be deleted"

\* C3: a stored account of one segment has no parent; a stored account of N > 1
\* segments has as parent the stored account named by its first N-1 segments.
C3_ParentIsShorterPrefix ==
  \A i \in 1..Len(accounts) :
    LET a == accounts[i]
        segs == split(a.name, ":")
        N == Len(segs)
    IN  IF N = 1 THEN a.parent_id = None
        ELSE /\ a.parent_id # None
             /\ \E j \in 1..Len(accounts) :
                  /\ accounts[j].id = a.parent_id[1]
                  /\ accounts[j].name = join(SubSeq(segs, 1, N - 1), ":")

\* C3 happens: an account of three segments is stored.
C3_Witness ==
  \E i \in 1..Len(accounts) : Len(split(accounts[i].name, ":")) = 3

\* the type the claim gives each root
RootType(root) ==
  CASE root = s_assets -> "asset"
    [] root = s_liabilities -> "liability"
    [] root = s_income -> "income"
    [] root = s_expenses -> "expense"
    [] root = s_capital -> "capital"
    [] root = s_drawings -> "drawings"
    [] OTHER -> "none"

\* C4: the type of every stored account is the type of the root segment of
\* its name.
C4_TypeFromRoot ==
  \A i \in 1..Len(accounts) :
    accounts[i].type = RootType(split(accounts[i].name, ":")[1])

\* C4 happens: accounts under two roots are stored, one of them below its root.
C4_Witness ==
  /\ \E i \in 1..Len(accounts) : accounts[i].type = "income" /\ accounts[i].parent_id # None
  /\ \E i \in 1..Len(accounts) : accounts[i].type = "asset"

\* the account paths of the model that parse, as given and in lower case
ValidPaths ==
  { p \in {it.account : it \in Items} \cup {lower(it.account) : it \in Items} :
      parse_account_path(p).err = "ok" }

\* the names ensureAccount(p) is to store: one per prefix of the parsed path
PrefixNames(p) ==
  LET segs == parse_account_path(p).segments
  IN  {join(SubSeq(segs, 1, i), ":") : i \in 1..Len(segs)}

\* C5: no two stored accounts have the same name; and from any state,
\* ensureAccount(p) leaves exactly one account per prefix of p, and running it
\* again, with p as given or in lower case, changes nothing.
C5_EnsureAccountIdempotent ==
  /\ \A i, j \in 1..Len(accounts) : accounts[i].name = accounts[j].name => i = j
  /\ \A p \in ValidPaths :
       LET once == ensure_account(get_connection, p)
       IN  /\ once.err = "ok"
           /\ \A name \in PrefixNames(p) : Len(SelectAccount(once, name)) = 1
           /\ ensure_account(once, p) = once
           /\ ensure_account(once, lower(p)) = once

\* C5 happens: two entries were added whose line items name the same
\* three-segment account, once in mixed case.
C5_Witness ==
  /\ Len(journal_entries) = 2
  /\ \E i, j \in 1..Len(line_items) :
       /\ line_items[i].journal_entry_id # line_items[j].journal_entry_id
       /\ line_items[i].account = line_items[j].account
       /\ Len(split(line_items[i].account, ":")) = 3

\* the line items read back are those supplied: as many, in the same order,
\* each with the account Norm makes of the supplied one and the same Decimal
ItemsMatch(got, supplied, Norm(_)) ==
  /\ Len(got) = Len(supplied)
  /\ \A i \in 1..Len(supplied) :
       /\ got[i].account = Norm(supplied[i].account)
       /\ got[i].debit = supplied[i].debit
       /\ got[i].credit = supplied[i].credit

\* the round trip of one step: the entry an accepted add stored reads back as
\* supplied, and every entry stored before the step reads back as before it
RoundTripStep(Norm(_)) ==
  /\ (result'.op = "add" /\ result'.err = "ok") =>
       LET got == get_by_id(get_connection', result'.val[1])
       IN  /\ got # None
           /\ ItemsMatch(got[1].line_items, result'.arg.line_items, Norm)
  /\ \A id \in {journal_entries[i].id : i \in 1..Len(journal_entries)} :
       get_by_id(get_connection', id) = get_by_id(get_connection, id)

SameText(s) == s

\* C6 as stated: getById of the id add returned gives back the line items
\* supplied, with the same account text, at once and after any later add.
C6_RoundTripSameAccount == [][RoundTripStep(SameText)]_vars

\* C6 as amended: getById of the id add returned gives back the line items
\* supplied, as many, in the same order, each with the lower-cased account and
\* the exact Decimal (digits and exponent), at once and after any later add.
C6_RoundTripLowercased == [][RoundTripStep(lower)]_vars

\* C6 happens: a second entry was accepted whose line item has letters in
\* upper case and the amount 50.00.
C6_Witness ==
  /\ result.op = "add"
  /\ result.err = "ok"
  /\ Len(journal_entries) = 2
  /\ \E i \in 1..Len(result.arg.line_items) :
       /\ result.arg.line_items[i].account # lower(result.arg.line_items[i].account)
       /\ result.arg.line_items[i].credit = Some(d_50_00)

\* sum(v[col] for v in balance.values())
RECURSIVE SumOver(_, _)
SumOver(balance, col) ==
  IF balance = <<>> THEN DecimalFromInt(0, 0)
  ELSE DecimalAdd(SumOver(SubSeq(balance, 1, Len(balance) - 1), col),
                  balance[Len(balance)][col])

\* C7: after any successful add calls, the debits of trialBalance() add up to
\* its credits.
C7_DebitsEqualCredits ==
  LET balance == get_trial_balance(get_connection, None)
  IN  DecimalEq(SumOver(balance, "debits"), SumOver(balance, "credits"))

\* datetime < datetime
DatetimeLess(a, b) ==
  LET ta == <<a.year, a.month, a.day, a.hour, a.minute, a.second, a.microsecond>>
      tb == <<b.year, b.month, b.day, b.hour, b.minute, b.second, b.microsecond>>
  IN  \E k \in 1..7 : ta[k] < tb[k] /\ \A j \in 1..(k - 1) : ta[j] = tb[j]

\* C8: getAll returns every stored entry once, later timestamps first, and of
\* two entries with the same timestamp the one with the larger id first.
C8_GetAllNewestFirst ==
  LET all == get_all(get_connection)
  IN  /\ Len(all) = Len(journal_entries)
      /\ {all[i].id : i \in 1..Len(all)} =
           {journal_entries[i].id : i \in 1..Len(journal_entries)}
      /\ \A i, j \in 1..Len(all) :
           i < j =>
             \/ DatetimeLess(all[j].timestamp, all[i].timestamp)
             \/ all[i].timestamp = all[j].timestamp /\ all[i].id > all[j].id

\* the line-item account is path or lies below it
InSubtree(account, path) == account = path \/ StartsWith(account, path \o <<":">>)

\* C9: for every path p, getByAccount(p) returns, once each, exactly the
\* entries with a line item whose account is lower(p) or starts with lower(p):
C9_GetByAccountExact ==
  \A p \in Queries :
    LET got == get_by_account(get_connection, p)
        expected == {line_items[i].journal_entry_id :
                       i \in {j \in 1..Len(line_items) :
                                InSubtree(line_items[j].account, lower(p))}}
    IN  /\ {got[i].id : i \in 1..Len(got)} = expected
        /\ Len(got) = Cardinality(expected)

\* C10: for every scope s, the keys of trialBalance(scope = s) are exactly the
\* line-item accounts that are lower(s) or start with lower(s):
C10_ScopedKeysExact ==
  \A s \in Queries :
    LET balance == get_trial_balance(get_connection, Some(s))
        expected == {line_items[i].account :
                       i \in {j \in 1..Len(line_items) :
                                InSubtree(line_items[j].account, lower(s))}}
    IN  /\ {balance[i].account : i \in 1..Len(balance)} = expected
        /\ Len(balance) = Cardinality(expected)

\* sum of Decimal(row[col]) over the rows where the column is set, from Decimal(0)
RECURSIVE ExactSum(_, _)
ExactSum(rows, col) ==
  IF rows = <<>> THEN DecimalFromInt(0, 0)
  ELSE LET before == ExactSum(SubSeq(rows, 1, Len(rows) - 1), col)
           row == rows[Len(rows)]
       IN  IF row[col] # None THEN DecimalAdd(before, DecimalParse(row[col][1])) ELSE before

\* C11: trialBalance() has one key per distinct line-item account (none when
\* there are no line items), and for each key debits is the exact decimal sum
\* of the debit amounts of the account's line items, credits the exact decimal
\* sum of their credit amounts (0 when there are none), and net is debits
\* minus credits.
C11_TrialBalanceExact ==
  LET balance == get_trial_balance(get_connection, None)
      keys == {line_items[i].account : i \in 1..Len(line_items)}
  IN  /\ {balance[i].account : i \in 1..Len(balance)} = keys
      /\ Len(balance) = Cardinality(keys)
      /\ \A i \in 1..Len(balance) :
           LET rows == SelectSeq(line_items, LAMBDA r : r.account = balance[i].account)
           IN  /\ DecimalEq(balance[i].debits, ExactSum(rows, "debit"))
               /\ DecimalEq(balance[i].credits, ExactSum(rows, "credit"))
               /\ DecimalEq(balance[i].net,
                            DecimalSub(balance[i].debits, balance[i].credits))

\* the store holds no journal entry, no line item and no account
EmptyStore(entries, items, accts) == entries = <<>> /\ items = <<>> /\ accts = <<>>

\* C12: initialize(path) where a store exists fails and leaves its journal
\* entries, line items and accounts as they were; where none exists it
\* succeeds and leaves an empty store.
C12_InitializeOnlyFresh ==
  [][result'.op = "init_database" =>
       IF db_exists
         THEN /\ result'.err # "ok"
              /\ journal_entries' = journal_entries
              /\ line_items' = line_items
              /\ accounts' = accounts
         ELSE /\ result'.err = "ok"
              /\ db_exists'
              /\ EmptyStore(journal_entries', line_items', accounts')]_vars

\* C13: open(path) where no store exists fails with the not-initialized error
\* and leaves the path without a store, which only initialize ends; where a
\* store exists, as after initialize, open succeeds.
C13_OpenNeedsStore ==
  [][
      /\ (result'.op = "open") =>
           IF db_exists
             THEN result'.err = "ok" /\ db_exists'
             ELSE /\ result'.err = "DatabaseNotInitializedError"
                  /\ ~db_exists'
                  /\ EmptyStore(journal_entries', line_items', accounts')
      /\ (~db_exists /\ db_exists') => (result'.op \in {"init_database", "cmd_init"})
      /\ (result'.op \in {"init_database", "cmd_init"} /\ result'.err = "ok") => db_exists'
    ]_vars

\* C13 happens: open failed where there is no store, and nothing is there after.
C13_Witness ==
  /\ result.op = "open"
  /\ result.err = "DatabaseNotInitializedError"
  /\ ~db_exists

\* the line item has both amounts set, or neither
BothOrNeither(item) == (item.debit # None) = (item.credit # None)

\* the step is add(entry) and some line item of entry has both amounts or none
AddOfBothOrNeither ==
  /\ result'.op = "add"
  /\ \E i \in 1..Len(result'.arg.line_items) : BothOrNeither(result'.arg.line_items[i])

\* C14: after any add every stored line item has exactly one of debit and
\* credit; an add with a line item that has both or neither is rejected, and
\* the journal entries, line items and accounts are as they were before it.
C14_ExactlyOneAmount ==
  [][/\ \A i \in 1..Len(line_items') : ~BothOrNeither(line_items'[i])
     /\ AddOfBothOrNeither =>
          /\ result'.err # "ok"
          /\ result'.val = None
          /\ journal_entries' = journal_entries
          /\ line_items' = line_items
          /\ accounts' = accounts]_vars

\* C14 happens: an add was refused for a second line item with both amounts,
\* after a first line item that parsed and whose account was not stored.
C14_Witness ==
  /\ result.op = "add"
  /\ result.err = "IntegrityError"
  /\ result.arg.line_items[2] = i_both
  /\ ~BothOrNeither(result.arg.line_items[1])
  /\ SelectAccount(get_connection, lower(result.arg.line_items[1].account)) = <<>>

\* C15: the ids of the stored journal entries are all different; a successful
\* add returns the id of the entry it stored, larger than the id of every
\* entry stored before, and 1 when none was, whatever adds failed before it.
C15_IdsIncrease ==
  [][(result'.op = "add" /\ result'.err = "ok") =>
       /\ result'.val # None
       /\ Len(journal_entries') = Len(journal_entries) + 1
       /\ journal_entries'[Len(journal_entries')].id = result'.val[1]
       /\ \A i \in 1..Len(journal_entries) : journal_entries[i].id < result'.val[1]
       /\ journal_entries = <<>> => result'.val[1] = 1
       /\ \A i, j \in 1..Len(journal_entries') :
            journal_entries'[i].id = journal_entries'[j].id => i = j]_vars

\* C15 happens: a second add succeeded in a store that holds the first entry.
C15_Witness ==
  /\ result.op = "add"
  /\ result.err = "ok"
  /\ result.val = Some(2)
  /\ Len(journal_entries) = 2

\* the six roots the claim recognises
SixRoots == {s_assets, s_liabilities, s_income, s_expenses, s_capital, s_drawings}

\* the segments of name: lower case, split on ":", each trimmed
TrimmedSegments(name) ==
  LET parts == split(lower(name), ":") IN [i \in 1..Len(parts) |-> strip(parts[i])]

\* C16: parse(name) fails with the invalid-name error exactly when name is
\* empty or its first segment is, with the invalid-root error exactly when the
\* first segment is not empty and not one of the six roots, and otherwise
\* returns the type of the root and all the lower-cased, trimmed segments.
C16_ParseCases ==
  result.op = "parse_account_path" =>
    LET name == result.arg
        segs == TrimmedSegments(name)
    IN  /\ result.err \in {"ok", "InvalidAccountName", "InvalidAccountRoot"}
        /\ result.err = "InvalidAccountName" <=> (name = <<>> \/ segs[1] = <<>>)
        /\ result.err = "InvalidAccountRoot" <=> (segs[1] # <<>> /\ segs[1] \notin SixRoots)
        /\ result.err = "ok" => result.val = Some(<<RootType(segs[1]), segs>>)

\* C16 happens: a name with capitals, a blank before the root and three
\* segments, the second one empty, was parsed.
C16_Witness ==
  /\ result.op = "parse_account_path"
  /\ result.err = "ok"
  /\ result.arg # lower(result.arg)
  /\ Head(result.arg) = " "
  /\ Len(result.val[1][2]) = 3
  /\ result.val[1][2][2] = <<>>

\* C17: the account of every stored line item is the name of a stored account.
C17_LineItemAccountStored ==
  \A i \in 1..Len(line_items) :
    \E j \in 1..Len(accounts) : accounts[j].name = line_items[i].account

\* the rows of new that come after the rows of old
Added(old, new) == SubSeq(new, Len(old) + 1, Len(new))

\* the row stores the line item supplied, for the entry entry_id
StoresItem(row, item, entry_id) ==
  /\ row.journal_entry_id = entry_id
  /\ row.account = lower(item.account)
  /\ (row.debit = None) = (item.debit = None)
  /\ (row.credit = None) = (item.credit = None)
  /\ row.debit # None => DecimalParse(row.debit[1]) = item.debit[1]
  /\ row.credit # None => DecimalParse(row.credit[1]) = item.credit[1]

\* C18: a successful add keeps every stored row as it was, adds one journal
\* entry and, linked to its id, the line items supplied, and adds only
\* accounts that are prefixes of the account paths of those line items; the
\* read operations leave every table as it was.
C18_AddOnlyAdds ==
  [][/\ (result'.op = "add" /\ result'.err = "ok") =>
          LET entry == result'.arg
              new_items == Added(line_items, line_items')
              new_accounts == Added(accounts, accounts')
          IN  /\ SubSeq(journal_entries', 1, Len(journal_entries)) = journal_entries
              /\ SubSeq(line_items', 1, Len(line_items)) = line_items
              /\ SubSeq(accounts', 1, Len(accounts)) = accounts
              /\ Len(journal_entries') = Len(journal_entries) + 1
              /\ journal_entries'[Len(journal_entries')].id = result'.val[1]
              /\ journal_entries'[Len(journal_entries')].description = entry.description
              /\ fromisoformat(journal_entries'[Len(journal_entries')].timestamp)
                   = entry.timestamp
              /\ Len(new_items) = Len(entry.line_items)
              /\ \A i \in 1..Len(new_items) :
                   StoresItem(new_items[i], entry.line_items[i], result'.val[1])
              /\ \A i \in 1..Len(new_accounts) :
                   \E k \in 1..Len(entry.line_items) :
                     new_accounts[i].name \in PrefixNames(entry.line_items[k].account)
     /\ (result'.op \in {"get_all", "get_by_id", "get_by_account", "get_accounts",
                          "get_trial_balance"}) =>
          /\ journal_entries' = journal_entries
          /\ line_items' = line_items
          /\ accounts' = accounts
          /\ sqlite_sequence' = sqlite_sequence]_vars

\* C18 happens: an add succeeded in a store that held an entry, and stored
\* an account the store did not have.
C18_Witness ==
  /\ result.op = "add"
  /\ result.err = "ok"
  /\ Len(journal_entries) = 2
  /\ \E i \in 1..Len(accounts) :
       /\ accounts[i].id > 4
       /\ \E k \in 1..Len(result.arg.line_items) :
            accounts[i].name \in PrefixNames(result.arg.line_items[k].account)

====
